---- MODULE Spec2Model ----
(***************************************************************************)
(* Microplastics API (src/api/main.py): six read-only GET endpoints over a *)
(* survey database.  Every request acquires a session (get_db), runs one   *)
(* fixed SELECT, reshapes the rows in memory and returns; the session is   *)
(* closed in get_db's finally block.                                       *)
(*                                                                         *)
(* Values.  A nullable numeric cell holds a natural number or Null (SQL    *)
(* NULL, Python None).  Where the non-null value is structured (a JSON     *)
(* array, a quotient) None is written JNull.  A quotient sum/len is kept   *)
(* as an exact reduced fraction; round(x, 2) is kept in hundredths.        *)
(***************************************************************************)
EXTENDS Integers, Sequences, FiniteSets, TLC

VARIABLES db, pc, endpoint, param, result, response, session, queries,
          closes

vars == <<db, pc, endpoint, param, result, response, session, queries,
          closes>>

\* ------------------------------------------------------------- bounds
MaxRows == 2
MaxVal == 1
NumRequests == 2

Requests == 1..NumRequests
Stations == {"S1", "S2"}
Estuaries == {"E1", "E2"}

\* ------------------------------------------------------------- values
Null == 0 - 1
JNull == [json |-> "null"]
JArray(items) == [json |-> "array", items |-> items]
Vals == {Null} \cup (0..MaxVal)

ShapeKeys == <<"fiber", "fragment", "film", "foam", "pellet">>
ColorKeys == <<"black", "red", "blue", "yellow", "grey", "white", "green",
               "orange", "brown", "transparent">>
SizeKeys == <<"lt_1mm", "mm_1_to_2_5", "mm_2_5_to_5">>

Range(s) == {s[i] : i \in DOMAIN s}

\* Collation of the station codes used as fixtures (ORDER BY sp.station_code).
Collate(code) == IF code = "S1" THEN 1 ELSE 2

\* --------------------------------------------------------- the database
EstuaryId(e) == IF e = "E1" THEN 1 ELSE 2

\* One row of survey.survey_points: the mapped columns of SurveyPoints plus
\* the two columns only the SQL text names (estuary_name, geom).
MkPoint(i, s, e) ==
    [point_id |-> i, estuary_id |-> EstuaryId(e), station_code |-> s,
     location |-> e, latitude |-> 10 + i, longitude |-> 70 + i,
     survey_date |-> 20240100 + i, estuary_name |-> e,
     geom |-> [x |-> 70 + i, y |-> 10 + i]]

\* The table in heap order; a station occurs once per estuary.
PointTablesOfLen(n) ==
    { [i \in 1..n |-> MkPoint(i, f[i][1], f[i][2])] :
        f \in { g \in [1..n -> Stations \X Estuaries] :
                  \A i, j \in 1..n : g[i] = g[j] => i = j } }

PointTables == UNION { PointTablesOfLen(n) : n \in 0..MaxRows }

\* A measurement table is keyed by station_code: a function from the stations
\* that have a row to that row.
TablesOver(rows) == UNION { [S -> rows] : S \in SUBSET Stations }

EmptyTable == [s \in {} |-> Null]

AbundanceRows == [water_abundance : Vals, sediment_abundance : Vals]

\* Fixture rows of a category table: all cells null, or the cell values
\* v, v+1, ... (mod MaxVal+1) along the table's columns.
SeededRow(keys, v) ==
    [k \in Range(keys) |->
        IF v = Null THEN Null
        ELSE (v + (CHOOSE i \in DOMAIN keys : keys[i] = k)) % (MaxVal + 1)]

CategoryRows(keys) == { SeededRow(keys, v) : v \in Vals }

NoMeasurements(points) ==
    [survey_points |-> points,
     plastic_abundance |-> EmptyTable,
     plastic_shape_water |-> EmptyTable, plastic_shape_sediment |-> EmptyTable,
     plastic_color_water |-> EmptyTable, plastic_color_sediment |-> EmptyTable,
     plastic_size_water |-> EmptyTable, plastic_size_sediment |-> EmptyTable]

AbundanceDatabases ==
    { [NoMeasurements(pts) EXCEPT !.plastic_abundance = t] :
        pts \in PointTables, t \in TablesOver(AbundanceRows) }

ShapeDatabases ==
    { [NoMeasurements(pts) EXCEPT !.plastic_shape_water = w,
                                  !.plastic_shape_sediment = s] :
        pts \in PointTables,
        w \in TablesOver(CategoryRows(ShapeKeys)),
        s \in TablesOver(CategoryRows(ShapeKeys)) }

ColorDatabases ==
    { [NoMeasurements(pts) EXCEPT !.plastic_color_water = w,
                                  !.plastic_color_sediment = s] :
        pts \in PointTables,
        w \in TablesOver(CategoryRows(ColorKeys)),
        s \in TablesOver(CategoryRows(ColorKeys)) }

SizeDatabases ==
    { [NoMeasurements(pts) EXCEPT !.plastic_size_water = w,
                                  !.plastic_size_sediment = s] :
        pts \in PointTables,
        w \in TablesOver(CategoryRows(SizeKeys)),
        s \in TablesOver(CategoryRows(SizeKeys)) }

\* The databases a request to endpoint e is served from: any point table,
\* and any contents of the measurement tables e's SELECT reads (it reads no
\* other table, so the others are left empty).
DatabasesFor(e) ==
    CASE e = "abundance" -> AbundanceDatabases
      [] e = "shape" -> ShapeDatabases
      [] e = "color" -> ColorDatabases
      [] e = "size" -> SizeDatabases
      [] OTHER -> { NoMeasurements(pts) : pts \in PointTables }

\* ------------------------------------------------------------ SQL pieces
\* WHERE sp.estuary_name = :estuary, in heap order.
InEstuary(d, name) ==
    SelectSeq(d.survey_points, LAMBDA sp : sp.estuary_name = name)

\* LEFT JOIN t ON sp.station_code = t.station_code, column col.
LeftCol(t, code, col) == IF code \in DOMAIN t THEN t[code][col] ELSE Null

RECURSIVE InsertByStation(_, _)
InsertByStation(sorted, r) ==
    IF sorted = <<>> THEN <<r>>
    ELSE IF Collate(r.station_code) < Collate(Head(sorted).station_code)
         THEN <<r>> \o sorted
         ELSE <<Head(sorted)>> \o InsertByStation(Tail(sorted), r)

\* ORDER BY sp.station_code (ascending).
RECURSIVE OrderByStation(_)
OrderByStation(rows) ==
    IF rows = <<>> THEN <<>>
    ELSE InsertByStation(OrderByStation(SubSeq(rows, 1, Len(rows) - 1)),
                         rows[Len(rows)])

MapSeq(s, Op(_)) == [i \in DOMAIN s |-> Op(s[i])]

\* ------------------------------------------------------ /survey-points
\* The columns the ORM class maps (models.SurveyPoints).
OrmColumns == {"point_id", "estuary_id", "station_code", "location",
               "latitude", "longitude", "survey_date"}

SurveyPointBase == {"estuary_id", "station_code", "location", "latitude",
                    "longitude", "survey_date"}

SurveyPoint == SurveyPointBase \cup {"point_id"}

\* db.query(SurveyPoints).all(): one ORM object per row.
QueryAllPoints(d) ==
    MapSeq(d.survey_points, LAMBDA row : [c \in OrmColumns |-> row[c]])

\* The response_model the route declares: the framework keeps the model's
\* fields of each returned object and drops the rest.
ReadPointsResponseModel == SurveyPointBase

read_points(objs) ==
    [status |-> "ok",
     body |-> MapSeq(objs,
                LAMBDA o : [f \in ReadPointsResponseModel |-> o[f]])]

\* ----------------------------------------------- /survey/points/geojson
\* jsonb_agg: SQL NULL over zero input rows, else the array of its inputs.
jsonb_agg(items) == IF items = <<>> THEN JNull ELSE JArray(items)

Feature(row) ==
    [type |-> "Feature",
     geometry |-> [type |-> "Point",
                   coordinates |-> <<row.geom.x, row.geom.y>>],
     properties |-> [c \in (DOMAIN row) \ {"geom"} |-> row[c]]]

\* The aggregate SELECT has no GROUP BY: it yields exactly one row, whose one
\* column is the jsonb object; .scalar() is that object.
QueryGeojson(d) ==
    [type |-> "FeatureCollection",
     features |-> jsonb_agg(MapSeq(d.survey_points, Feature))]

\* Python truth value of what .scalar() gave: None is false, a dict is
\* false only when it has no keys.
Truthy(obj) == obj # JNull /\ DOMAIN obj # {}

get_points_geojson(res) ==
    IF ~Truthy(res)
    THEN [status |-> "ok",
          body |-> [type |-> "FeatureCollection", features |-> JArray(<<>>)]]
    ELSE [status |-> "ok", body |-> res]

\* ------------------------------------------------ /estuaries/{estuary_name}
QueryAbundance(d, name) ==
    MapSeq(InEstuary(d, name),
           LAMBDA sp :
             [point_id |-> sp.point_id, station_code |-> sp.station_code,
              latitude |-> sp.latitude, longitude |-> sp.longitude,
              water_abundance |->
                LeftCol(d.plastic_abundance, sp.station_code, "water_abundance"),
              sediment_abundance |->
                LeftCol(d.plastic_abundance, sp.station_code,
                        "sediment_abundance")])

RECURSIVE Sum(_)
Sum(s) == IF s = <<>> THEN 0 ELSE Head(s) + Sum(Tail(s))

RECURSIVE Gcd(_, _)
Gcd(a, b) == IF b = 0 THEN a ELSE Gcd(b, a % b)

\* The quotient n / d (d > 0, n >= 0) as a number.
Quotient(n, d) ==
    [json |-> "number", num |-> n \div Gcd(n, d), den |-> d \div Gcd(n, d)]

\* Faulty variant of NonNullValues: the filter is lost and a null counts as 0.
NullsCountAsZero(rows, col) ==
    MapSeq(rows, LAMBDA r : IF r[col] = Null THEN 0 ELSE r[col])

\* [r.col for r in rows if r.col is not None]
NonNullValues(rows, col) ==
    MapSeq(SelectSeq(rows, LAMBDA r : r[col] # Null), LAMBDA r : r[col])

\* sum(values) / len(values) if values else None
MeanOrNone(values) ==
    IF values # <<>> THEN Quotient(Sum(values), Len(values)) ELSE JNull

\* Faulty variant of get_estuary_data: the empty-result branch is lost.
get_estuary_data_unguarded(rows) ==
    [status |-> "ok",
     body |->
       [average_water_abundance |->
          MeanOrNone(NonNullValues(rows, "water_abundance")),
        average_sediment_abundance |->
          MeanOrNone(NonNullValues(rows, "sediment_abundance")),
        points |-> rows]]

get_estuary_data(rows) ==
    IF rows = <<>>
    THEN [status |-> "ok", body |-> [error |-> "No points found"]]
    ELSE [status |-> "ok",
          body |->
            [average_water_abundance |->
               MeanOrNone(NonNullValues(rows, "water_abundance")),
             average_sediment_abundance |->
               MeanOrNone(NonNullValues(rows, "sediment_abundance")),
             points |-> rows]]

\* ------------------------------------------------- joined category rows
\* The columns a LEFT JOIN contributes for one medium: the station's row, or
\* nulls when the table has no row for the station.  The flat aliases of the
\* SQL text (water_fiber, w_black, s_lt_1mm, ...) are kept as one record per
\* medium.
LeftRow(t, code, keys) ==
    IF code \in DOMAIN t THEN t[code] ELSE [k \in Range(keys) |-> Null]

\* An exception escaping the handler: the framework answers 500.
ServerError ==
    [status |-> "error", body |-> [detail |-> "Internal Server Error"]]

\* ------------------------------------------------ /estuaries/{estuary}/shape
\* JOIN ... JOIN ...: only stations with a row in both shape tables.
QueryShape(d, name) ==
    MapSeq(SelectSeq(InEstuary(d, name),
                     LAMBDA sp :
                       /\ sp.station_code \in DOMAIN d.plastic_shape_water
                       /\ sp.station_code \in DOMAIN d.plastic_shape_sediment),
           LAMBDA sp :
             [station_code |-> sp.station_code, latitude |-> sp.latitude,
              longitude |-> sp.longitude,
              water |-> d.plastic_shape_water[sp.station_code],
              sediment |-> d.plastic_shape_sediment[sp.station_code]])

ShapeZero == [k \in Range(ShapeKeys) |-> 0]

\* One pass of the loop body's inner for: sum[k] += r[...]; adding None to a
\* number raises TypeError.
AddRow(acc, r) ==
    IF \E k \in Range(ShapeKeys) : r.water[k] = Null \/ r.sediment[k] = Null
    THEN [acc EXCEPT !.raised = TRUE]
    ELSE [raised |-> FALSE,
          water_sum |-> [k \in Range(ShapeKeys) |->
                           acc.water_sum[k] + r.water[k]],
          sediment_sum |-> [k \in Range(ShapeKeys) |->
                              acc.sediment_sum[k] + r.sediment[k]]]

RECURSIVE Accumulate(_, _, _)
Accumulate(rows, i, acc) ==
    IF i > Len(rows) \/ acc.raised THEN acc
    ELSE Accumulate(rows, i + 1, AddRow(acc, rows[i]))

\* round(total / n, 2) in hundredths, ties to even (n > 0, total >= 0).
Round2(total, n) ==
    LET q == (100 * total) \div n
        rem == (100 * total) % n
    IN  IF 2 * rem > n \/ (2 * rem = n /\ q % 2 = 1) THEN q + 1 ELSE q

\* Lines 169-208: the loop, n = len(rows), the averages.  Dividing by n = 0
\* raises ZeroDivisionError.
ShapeAggregate(estuary, rows) ==
    LET acc == Accumulate(rows, 1, [raised |-> FALSE, water_sum |-> ShapeZero,
                                    sediment_sum |-> ShapeZero])
        n == Len(rows)
    IN  IF acc.raised \/ n = 0 THEN ServerError
        ELSE [status |-> "ok",
              body |->
                [estuary |-> estuary,
                 points |-> rows,
                 average |->
                   [water |-> [k \in Range(ShapeKeys) |->
                                 Round2(acc.water_sum[k], n)],
                    sediment |-> [k \in Range(ShapeKeys) |->
                                    Round2(acc.sediment_sum[k], n)]]]]

EmptyDict == [k \in {} |-> Null]

\* Faulty variant of get_estuary_shape: the empty-result branch is lost.
get_estuary_shape_unguarded(estuary, rows) == ShapeAggregate(estuary, rows)

get_estuary_shape(estuary, rows) ==
    IF rows = <<>>
    THEN [status |-> "ok",
          body |-> [estuary |-> estuary, points |-> <<>>,
                    average |-> EmptyDict]]
    ELSE ShapeAggregate(estuary, rows)

\* ------------------------------------------------ /estuaries/{estuary}/color
QueryColor(d, name) ==
    OrderByStation(
      MapSeq(InEstuary(d, name),
             LAMBDA sp :
               [station_code |-> sp.station_code, latitude |-> sp.latitude,
                longitude |-> sp.longitude,
                w |-> LeftRow(d.plastic_color_water, sp.station_code,
                              ColorKeys),
                s |-> LeftRow(d.plastic_color_sediment, sp.station_code,
                              ColorKeys)]))

\* Faulty variant of ColorCell: the size endpoint's  or 0  copied over.
ColorCellOrZero(v) == IF v = Null \/ v = 0 THEN 0 ELSE v

\* "black": r["w_black"], ...: each cell as fetched.
ColorCell(v) == v

get_estuary_color(estuary, rows) ==
    [status |-> "ok",
     body |->
       [estuary |-> estuary,
        points |->
          MapSeq(rows,
                 LAMBDA r :
                   [station_code |-> r.station_code, latitude |-> r.latitude,
                    longitude |-> r.longitude,
                    water |-> [k \in Range(ColorKeys) |-> ColorCell(r.w[k])],
                    sediment |-> [k \in Range(ColorKeys) |->
                                    ColorCell(r.s[k])]])]]

\* ------------------------------------------------- /estuaries/{estuary}/size
QuerySize(d, name) ==
    OrderByStation(
      MapSeq(InEstuary(d, name),
             LAMBDA sp :
               [station_code |-> sp.station_code, latitude |-> sp.latitude,
                longitude |-> sp.longitude,
                w |-> LeftRow(d.plastic_size_water, sp.station_code, SizeKeys),
                s |-> LeftRow(d.plastic_size_sediment, sp.station_code,
                              SizeKeys)]))

\* Faulty variant of OrZero: the default is lost and the cell goes out as fetched.
KeepCell(v) == v

\* Python's  v or 0 : v when v is truthy, else 0 (None and 0 are falsy).
OrZero(v) == IF v = Null \/ v = 0 THEN 0 ELSE v

get_size_distribution(estuary, rows) ==
    [status |-> "ok",
     body |->
       [estuary |-> estuary,
        points |->
          MapSeq(rows,
                 LAMBDA r :
                   [station_code |-> r.station_code, latitude |-> r.latitude,
                    longitude |-> r.longitude,
                    water |-> [k \in Range(SizeKeys) |-> OrZero(r.w[k])],
                    sediment |-> [k \in Range(SizeKeys) |->
                                    OrZero(r.s[k])]])]]

\* ------------------------------------------------------------- routing
Endpoints == {"survey-points", "geojson", "abundance", "shape", "color",
              "size"}

NoParam == "-"

ParamsOf(e) ==
    IF e \in {"survey-points", "geojson"} THEN {NoParam} ELSE Estuaries

\* The one db.execute / db.query of each handler.
Query(e, p, d) ==
    CASE e = "survey-points" -> QueryAllPoints(d)
      [] e = "geojson" -> QueryGeojson(d)
      [] e = "abundance" -> QueryAbundance(d, p)
      [] e = "shape" -> QueryShape(d, p)
      [] e = "color" -> QueryColor(d, p)
      [] e = "size" -> QuerySize(d, p)

\* The rest of each handler: pure reshaping of what the query gave.
Handler(e, p, res) ==
    CASE e = "survey-points" -> read_points(res)
      [] e = "geojson" -> get_points_geojson(res)
      [] e = "abundance" -> get_estuary_data(res)
      [] e = "shape" -> get_estuary_shape(p, res)
      [] e = "color" -> get_estuary_color(p, res)
      [] e = "size" -> get_size_distribution(p, res)

\* Faulty variant of DbAfterSelect: a statement that deletes the survey points.
DbAfterDelete(d) == [d EXCEPT !.survey_points = <<>>]

\* Every statement the handlers send is a SELECT: the tables are as before.
DbAfterSelect(d) == d

\* Faulty variant of FinallyCloses: close after the yield, outside any finally.
ClosesOnlyAfterReturn(raised) == ~raised

\* get_db: the close sits in a finally block, so it runs whether the handler
\* returned or raised.
FinallyCloses(raised) == TRUE

NoResult == <<>>
NoResponse == [status |-> "none"]

\* ------------------------------------------------------------- requests
Idle ==
    /\ pc = [r \in Requests |-> "idle"]
    /\ result = [r \in Requests |-> NoResult]
    /\ response = [r \in Requests |-> NoResponse]
    /\ session = [r \in Requests |-> "none"]
    /\ queries = [r \in Requests |-> 0]
    /\ closes = [r \in Requests |-> 0]

\* One client asks for one path; the database holds anything that path reads.
Init ==
    /\ \E e \in Endpoints : \E p \in ParamsOf(e) :
         /\ db \in DatabasesFor(e)
         /\ endpoint = [r \in Requests |-> e]
         /\ param = [r \in Requests |-> p]
    /\ Idle

\* The request arrives; Depends(get_db) runs get_db up to its yield:
\* db = SessionLocal().
Acquire(r) ==
    /\ pc[r] = "idle"
    /\ session' = [session EXCEPT ![r] = "open"]
    /\ pc' = [pc EXCEPT ![r] = "open"]
    /\ UNCHANGED <<db, endpoint, param, result, response, queries, closes>>

\* The handler's query runs on the request's session and gives its rows.
Execute(r) ==
    /\ pc[r] = "open"
    /\ result' = [result EXCEPT ![r] = Query(endpoint[r], param[r], db)]
    /\ queries' = [queries EXCEPT ![r] = @ + 1]
    /\ db' = DbAfterSelect(db)
    /\ pc' = [pc EXCEPT ![r] = "fetched"]
    /\ UNCHANGED <<endpoint, param, response, session, closes>>

\* The query raises (the database is unreachable): nothing catches it.
ExecuteRaises(r) ==
    /\ pc[r] = "open"
    /\ queries' = [queries EXCEPT ![r] = @ + 1]
    /\ response' = [response EXCEPT ![r] = ServerError]
    /\ pc' = [pc EXCEPT ![r] = "raised"]
    /\ UNCHANGED <<db, endpoint, param, result, session, closes>>

\* The handler reshapes the rows and returns, or raises while reshaping.
Return(r) ==
    /\ pc[r] = "fetched"
    /\ LET resp == Handler(endpoint[r], param[r], result[r])
       IN  /\ response' = [response EXCEPT ![r] = resp]
           /\ pc' = [pc EXCEPT ![r] =
                       IF resp.status = "error" THEN "raised" ELSE "returned"]
    /\ UNCHANGED <<db, endpoint, param, result, session, queries, closes>>

\* get_db resumes after its yield: finally: db.close().
Close(r) ==
    /\ pc[r] \in {"returned", "raised"}
    /\ IF FinallyCloses(pc[r] = "raised")
       THEN /\ session' = [session EXCEPT ![r] = "closed"]
            /\ closes' = [closes EXCEPT ![r] = @ + 1]
       ELSE UNCHANGED <<session, closes>>
    /\ pc' = [pc EXCEPT ![r] = "exited"]
    /\ UNCHANGED <<db, endpoint, param, result, response, queries>>

\* The dependency has exited; the response (or the 500) leaves the server.
Respond(r) ==
    /\ pc[r] = "exited"
    /\ pc' = [pc EXCEPT ![r] = "done"]
    /\ UNCHANGED <<db, endpoint, param, result, response, session, queries,
                   closes>>

\* One client, and a database that answers: the response-shaping contracts.
NextServe ==
    \/ Acquire(1)
    \/ Execute(1)
    \/ Return(1)
    \/ Close(1)
    \/ Respond(1)

Spec == Init /\ [][NextServe]_vars

\* Concurrent requests to any paths, each query free to fail.  The database
\* holds a point in each estuary: the shape rows of E1's station are numbers
\* (the shape handler answers), those of E2's station are null (it raises).
ConcPoints == <<MkPoint(1, "S1", "E1"), MkPoint(2, "S2", "E2")>>

ConcShapeTable ==
    [c \in Stations |->
       SeededRow(ShapeKeys, IF c = "S1" THEN MaxVal ELSE Null)]

ConcDatabase ==
    [NoMeasurements(ConcPoints) EXCEPT
       !.plastic_shape_water = ConcShapeTable,
       !.plastic_shape_sediment = ConcShapeTable]

InitConc ==
    /\ db = ConcDatabase
    /\ endpoint \in [Requests -> Endpoints]
    /\ param \in [Requests -> Estuaries \cup {NoParam}]
    /\ \A r \in Requests : param[r] \in ParamsOf(endpoint[r])
    /\ Idle

Next ==
    \E r \in Requests :
        \/ Acquire(r)
        \/ Execute(r)
        \/ ExecuteRaises(r)
        \/ Return(r)
        \/ Close(r)
        \/ Respond(r)

SpecConc == InitConc /\ [][Next]_vars

\* ===================================================== the properties
\* What the properties read off the database directly, without the handlers'
\* own helpers.
Served(r) == pc[r] \in {"returned", "exited", "done"}

Matching(name) ==
    { i \in DOMAIN db.survey_points :
        db.survey_points[i].estuary_name = name }

Cell(t, code, col) == IF code \in DOMAIN t THEN t[code][col] ELSE Null

RECURSIVE Total(_)
Total(f) ==
    IF DOMAIN f = {} THEN 0
    ELSE LET i == CHOOSE j \in DOMAIN f : TRUE
         IN  f[i] + Total([j \in (DOMAIN f) \ {i} |-> f[j]])

\* avg is the mean of the non-null cells of column col over the estuary's
\* points: None when there is none, else total / count.
IsMeanOfNonNull(avg, name, col) ==
    LET cells == [i \in Matching(name) |->
                    Cell(db.plastic_abundance,
                         db.survey_points[i].station_code, col)]
        kept == { i \in Matching(name) : cells[i] # Null }
    IN  IF kept = {} THEN avg = JNull
        ELSE /\ avg.json = "number"
             /\ avg.den > 0
             /\ avg.num * Cardinality(kept)
                  = avg.den * Total([i \in kept |-> cells[i]])

\* C1: GET /survey/points/geojson on an empty survey_points table returns
\* exactly {"type": "FeatureCollection", "features": []}: features is an
\* empty list, never null.
C1_EmptyTableGivesEmptyFeatures ==
    \A r \in Requests :
        (pc[r] = "done" /\ endpoint[r] = "geojson" /\ db.survey_points = <<>>)
        => response[r] =
             [status |-> "ok",
              body |-> [type |-> "FeatureCollection",
                        features |-> JArray(<<>>)]]

\* C2: GET /estuaries/{x}/shape with at least one joined row completes with a
\* response, and each of the ten per-category averages is the mean of the
\* non-null cells of its column only (a null cell counts neither in the sum
\* nor in the divisor), rounded to two places.
C2_ShapeAveragesSkipNulls ==
    \A r \in Requests :
        (pc[r] = "done" /\ endpoint[r] = "shape" /\ result[r] # <<>>)
        => /\ response[r].status = "ok"
           /\ \A m \in {"water", "sediment"} : \A k \in Range(ShapeKeys) :
                LET kept == { i \in DOMAIN result[r] :
                                result[r][i][m][k] # Null }
                IN  kept # {} =>
                      response[r].body.average[m][k] =
                        Round2(Total([i \in kept |-> result[r][i][m][k]]),
                               Cardinality(kept))

\* C3: GET /estuaries/{estuary_name} with at least one matching point answers
\* with the two averages, each the mean of the non-null values of its own
\* column (None when the column is all null), and not with the error object.
C3_AbundanceMeansOverNonNull ==
    \A r \in Requests :
        (Served(r) /\ endpoint[r] = "abundance" /\ Matching(param[r]) # {})
        => /\ response[r].status = "ok"
           /\ DOMAIN response[r].body =
                {"average_water_abundance", "average_sediment_abundance",
                 "points"}
           /\ IsMeanOfNonNull(response[r].body.average_water_abundance,
                              param[r], "water_abundance")
           /\ IsMeanOfNonNull(response[r].body.average_sediment_abundance,
                              param[r], "sediment_abundance")

\* C3's case: two points, water has one null and one number, sediment is all
\* null; the water mean is that one number and the sediment mean is None.
C3_Witness ==
    \E r \in Requests :
        /\ pc[r] = "done" /\ endpoint[r] = "abundance"
        /\ Len(result[r]) = 2
        /\ result[r][1].water_abundance = Null
        /\ result[r][2].water_abundance = 1
        /\ result[r][1].sediment_abundance = Null
        /\ result[r][2].sediment_abundance = Null
        /\ response[r].body.average_water_abundance.num = 1
        /\ response[r].body.average_water_abundance.den = 1
        /\ response[r].body.average_sediment_abundance = JNull

\* C5: GET /estuaries/{x} answers exactly {"error": "No points found"}, as a
\* normal response, when no survey point matches x, and never answers that
\* object when at least one point matches.
C5_ErrorObjectIffNoPoints ==
    \A r \in Requests :
        (Served(r) /\ endpoint[r] = "abundance")
        => /\ response[r].status = "ok"
           /\ (Matching(param[r]) = {})
                <=> (response[r].body = [error |-> "No points found"])

\* C5's case: the estuary asked for has no point while another estuary has.
C5_Witness ==
    \E r \in Requests :
        /\ pc[r] = "done" /\ endpoint[r] = "abundance"
        /\ Matching(param[r]) = {}
        /\ db.survey_points # <<>>
        /\ response[r].body = [error |-> "No points found"]

\* C6: in GET /estuaries/{x}/size there is one returned point per matching
\* survey point, and each of its six bucket values is the station's cell, with
\* 0 in place of a null cell (a null in the row, or no row for the station).
C6_SizeNullsBecomeZero ==
    \A r \in Requests :
        (Served(r) /\ endpoint[r] = "size")
        => /\ response[r].status = "ok"
           /\ Len(response[r].body.points) = Cardinality(Matching(param[r]))
           /\ \A i \in DOMAIN response[r].body.points :
                LET pt == response[r].body.points[i]
                IN  \A k \in Range(SizeKeys) :
                      LET w == Cell(db.plastic_size_water, pt.station_code, k)
                          s == Cell(db.plastic_size_sediment,
                                    pt.station_code, k)
                      IN  /\ pt.water[k] # Null
                          /\ pt.sediment[k] # Null
                          /\ pt.water[k] = (IF w = Null THEN 0 ELSE w)
                          /\ pt.sediment[k] = (IF s = Null THEN 0 ELSE s)

\* C6's case: one response holds a point whose station has no water-size row,
\* a point whose water-size row is null, and a non-zero sediment bucket.
C6_Witness ==
    \E r \in Requests :
        /\ pc[r] = "done" /\ endpoint[r] = "size"
        /\ Len(response[r].body.points) = 2
        /\ \E i \in 1..2 :
             response[r].body.points[i].station_code
               \notin DOMAIN db.plastic_size_water
        /\ \E i \in 1..2 :
             LET code == response[r].body.points[i].station_code
             IN  /\ code \in DOMAIN db.plastic_size_water
                 /\ db.plastic_size_water[code]["lt_1mm"] = Null
                 /\ response[r].body.points[i].water["lt_1mm"] = 0
        /\ \E i \in 1..2 : \E k \in Range(SizeKeys) :
             response[r].body.points[i].sediment[k] > 0

\* C7: in GET /estuaries/{x}/color the response holds the estuary name and
\* the points only (no average); there is one point per matching survey
\* point, each color value is the station's cell with null kept as null; for
\* no matching point the response is {"estuary": x, "points": []}.
C7_ColorNullsPassThrough ==
    \A r \in Requests :
        (Served(r) /\ endpoint[r] = "color")
        => /\ response[r].status = "ok"
           /\ DOMAIN response[r].body = {"estuary", "points"}
           /\ response[r].body.estuary = param[r]
           /\ Len(response[r].body.points) = Cardinality(Matching(param[r]))
           /\ \A i \in DOMAIN response[r].body.points :
                LET pt == response[r].body.points[i]
                IN  \A k \in Range(ColorKeys) :
                      /\ pt.water[k] =
                           Cell(db.plastic_color_water, pt.station_code, k)
                      /\ pt.sediment[k] =
                           Cell(db.plastic_color_sediment, pt.station_code, k)
           /\ Matching(param[r]) = {}
                => response[r].body = [estuary |-> param[r], points |-> <<>>]

\* C7's case: a point with a null water color (no row for its station), a
\* stored 0 and a stored non-zero value, all returned as they are.
C7_Witness ==
    \E r \in Requests :
        /\ pc[r] = "done" /\ endpoint[r] = "color"
        /\ \E i \in DOMAIN response[r].body.points :
             LET pt == response[r].body.points[i]
             IN  /\ pt.station_code \notin DOMAIN db.plastic_color_water
                 /\ pt.water["black"] = Null
                 /\ \E k \in Range(ColorKeys) : pt.sediment[k] = 0
                 /\ \E k \in Range(ColorKeys) : pt.sediment[k] > 0

\* The points of the estuary whose station has a row in both shape tables.
ShapeJoined(name) ==
    { i \in Matching(name) :
        /\ db.survey_points[i].station_code \in DOMAIN db.plastic_shape_water
        /\ db.survey_points[i].station_code
             \in DOMAIN db.plastic_shape_sediment }

\* C8: GET /estuaries/{x}/shape with no joined row (unknown estuary, or its
\* stations missing from a shape table) returns
\* {"estuary": x, "points": [], "average": {}} and does not fail on a
\* division by the row count.
C8_ShapeEmptyResult ==
    \A r \in Requests :
        (pc[r] \in {"returned", "raised", "exited", "done"}
           /\ endpoint[r] = "shape" /\ ShapeJoined(param[r]) = {})
        => response[r] =
             [status |-> "ok",
              body |-> [estuary |-> param[r], points |-> <<>>,
                        average |-> <<>>]]

\* C8's case: the estuary has a point whose station has a water-shape row and
\* no sediment-shape row, so the join is empty.
C8_Witness ==
    \E r \in Requests :
        /\ pc[r] = "done" /\ endpoint[r] = "shape"
        /\ ShapeJoined(param[r]) = {}
        /\ \E i \in Matching(param[r]) :
             /\ db.survey_points[i].station_code
                  \in DOMAIN db.plastic_shape_water
             /\ db.survey_points[i].station_code
                  \notin DOMAIN db.plastic_shape_sediment
        /\ response[r].body.average = <<>>

\* C10: GET /survey-points returns one record per row of survey_points, and
\* each record carries point_id together with estuary_id, station_code,
\* location, latitude, longitude and survey_date of its row.
C10_EveryRowWithPointId ==
    \A r \in Requests :
        (pc[r] = "done" /\ endpoint[r] = "survey-points")
        => /\ response[r].status = "ok"
           /\ Len(response[r].body) = Len(db.survey_points)
           /\ \A i \in DOMAIN response[r].body :
                /\ SurveyPoint \subseteq DOMAIN response[r].body[i]
                /\ \A f \in SurveyPoint :
                     response[r].body[i][f] = db.survey_points[i][f]

====
